---- MODULE Spec2Model ----
(***************************************************************************)
(* Model of tools/build-axolotl-rotations-json.mjs (src/unnamed/part_000): *)
(* file selection, TSV parsing, condition-field extraction and the         *)
(* assembly of the month-indexed rotation table.                           *)
(*                                                                         *)
(* Text.  A text is a sequence of units.  A unit is one character          *)
(* (k = "ch") or an atom: a fixed run of characters that holds no tab, no  *)
(* line break and no leading or trailing white space, so that splitting    *)
(* and trimming act on a sequence of units exactly as they act on the      *)
(* characters it stands for.  The atoms are the shapes the regular         *)
(* expressions of the source look for:                                     *)
(*   lit   a literal word s  (LVLI_EDID, FISH, ...)                        *)
(*   fn    "(LCP_Fishing_Axolotl_MonthlyIndex [GLOB:007F1234])" when b,    *)
(*         "(LCP_Fishing_Axolotl_MonthlyIndex)" otherwise                  *)
(*   num   "= n.000000 ;" for the numeral n                                *)
(*   kw    "(<id> [KYWD:007AE59D])" when b, "(<id>)" otherwise, for the    *)
(*         identifier spelled by the characters id                         *)
(*   id    the identifier spelled by the characters id                     *)
(* The fn, num and kw atoms begin and end with punctuation, so a word      *)
(* boundary (\b) of a pattern never depends on the neighbouring unit.      *)
(* A JavaScript object is a sequence of [k, v] pairs in insertion order    *)
(* (Object.keys order for keys that are not integer-like).                 *)
(***************************************************************************)
EXTENDS Integers, Sequences, FiniteSets, TLC

VARIABLES
  fs,          \* the file system under repoRoot/tsv: [exists, items]
  pc,          \* position of main()
  err,         \* the error thrown, or "none"
  entriesPath, \* main: entriesPath
  readPaths,   \* the paths read with readFileSync so far
  rows,        \* main: rows (the value parseTSV returned)
  axoRows,     \* main: axoRows
  ri,          \* main: number of axoRows the for loop has consumed
  months,      \* main: months
  warned,      \* the K of the console.warn "K/12" line, or NoWarn
  dist,        \* what main wrote: [dir, file]
  tsvText,     \* parseTSV: its argument
  row,         \* extractMonthIndex / extractRegions: their argument
  idx,         \* extractMonthIndex: its result
  regions      \* extractRegions: its result

vars == <<fs, pc, err, entriesPath, readPaths, rows, axoRows, ri, months,
          warned, dist, tsvText, row, idx, regions>>

----------------------------------------------------------------------------
(* Bounds *)

\* SpecParse: the longest text parseTSV is given.
MaxLen == 5
\* SpecExtract: the most units a condition field holds.
MaxToks == 2
\* Spec: the most entries of one directory, the latest modification time,
\* and the most lines that follow the export's month lines.
MaxItems == 3
MaxTime == 3
MaxExtra == 2

----------------------------------------------------------------------------
(* Units and texts *)

Unit(k, s, id, n, b) == [k |-> k, s |-> s, id |-> id, n |-> n, b |-> b]
Ch(c) == Unit("ch", c, <<>>, 0, FALSE)
Lit(s) == Unit("lit", s, <<>>, 0, FALSE)
Fn(b) == Unit("fn", "", <<>>, 0, b)
Num(n) == Unit("num", "", <<>>, n, FALSE)
Kw(id, b) == Unit("kw", "", id, 0, b)
Ident(id) == Unit("id", "", id, 0, FALSE)

TAB == Ch("\t")
LF == Ch("\n")
CR == Ch("\r")
SP == Ch(" ")

Str(t) == [i \in 1..Len(t) |-> Ch(t[i])]

Min(S) == CHOOSE x \in S : \A y \in S : x <= y
Max(S) == CHOOSE x \in S : \A y \in S : x >= y

\* String.prototype.trim's white space, among the characters of the model.
IsSpace(u) == u \in {SP, TAB, LF, CR}

Trim(s) ==
  LET ns == {i \in 1..Len(s) : ~IsSpace(s[i])}
  IN IF ns = {} THEN <<>> ELSE SubSeq(s, Min(ns), Max(ns))

RECURSIVE Split(_, _)
Split(s, sep) ==
  LET at == {i \in 1..Len(s) : s[i] = sep}
  IN IF at = {} THEN <<s>>
     ELSE <<SubSeq(s, 1, Min(at) - 1)>> \o Split(SubSeq(s, Min(at) + 1, Len(s)), sep)

\* .replace(/\r\n/g, "\n"): a match starts at a CR and ends at the LF after
\* it, so no two matches overlap and every CR that an LF follows is dropped.
ReplaceCRLF(s) ==
  LET withNext == [i \in 1..Len(s) |-> <<s[i], i < Len(s) /\ s[i + 1] = LF>>]
      kept == SelectSeq(withNext, LAMBDA p : ~(p[1] = CR /\ p[2]))
  IN [i \in 1..Len(kept) |-> kept[i][1]]

\* .replace(/\r/g, "\n")
ReplaceCR(s) == [i \in 1..Len(s) |-> IF s[i] = CR THEN LF ELSE s[i]]

----------------------------------------------------------------------------
(* Objects *)

HasKey(r, k) == \E j \in 1..Len(r) : r[j].k = k
KeyPos(r, k) == CHOOSE j \in 1..Len(r) : r[j].k = k
\* r[k] || "": undefined and "" are not told apart by any reader of a row.
Get(r, k) == IF HasKey(r, k) THEN r[KeyPos(r, k)].v ELSE <<>>
\* r[k] = v
Put(r, k, v) ==
  IF HasKey(r, k) THEN [r EXCEPT ![KeyPos(r, k)].v = v]
  ELSE Append(r, [k |-> k, v |-> v])
ObjectKeys(r) == [j \in 1..Len(r) |-> r[j].k]

----------------------------------------------------------------------------
(* parseTSV *)

\* (parts[c] ?? "")
PartAt(parts, c) == IF c <= Len(parts) THEN parts[c] ELSE <<>>

\* Fault seeded in ZipRow: the values are stored untrimmed.
RECURSIVE ZipRowNoTrim(_, _, _, _)
ZipRowNoTrim(header, parts, c, acc) ==
  IF c > Len(header) THEN acc
  ELSE ZipRowNoTrim(header, parts, c + 1, Put(acc, header[c], PartAt(parts, c)))

RECURSIVE ZipRow(_, _, _, _)
ZipRow(header, parts, c, acc) ==
  IF c > Len(header) THEN acc
  ELSE ZipRow(header, parts, c + 1, Put(acc, header[c], Trim(PartAt(parts, c))))

TsvLines(tsvTextArg) ==
  SelectSeq(Split(ReplaceCR(ReplaceCRLF(tsvTextArg)), LF),
            LAMBDA l : Len(Trim(l)) > 0)

parseTSV(tsvTextArg) ==
  LET lines == TsvLines(tsvTextArg)
  IN IF lines = <<>> THEN <<>>
     ELSE LET hparts == Split(lines[1], TAB)
              header == [c \in 1..Len(hparts) |-> Trim(hparts[c])]
          IN [i \in 1..(Len(lines) - 1) |->
                ZipRow(header, Split(lines[i + 1], TAB), 1, <<>>)]

----------------------------------------------------------------------------
(* Characters *)

LowerChars == <<"a","b","c","d","e","f","g","h","i","j","k","l","m",
                "n","o","p","q","r","s","t","u","v","w","x","y","z">>
UpperChars == <<"A","B","C","D","E","F","G","H","I","J","K","L","M",
                "N","O","P","Q","R","S","T","U","V","W","X","Y","Z">>
DigitChars == <<"0","1","2","3","4","5","6","7","8","9">>

Range(f) == {f[i] : i \in DOMAIN f}
IsLower(c) == c \in Range(LowerChars)
IsUpper(c) == c \in Range(UpperChars)
IsDigit(c) == c \in Range(DigitChars)
\* \w
IsWordChar(c) == IsLower(c) \/ IsUpper(c) \/ IsDigit(c) \/ c = "_"
ToLower(c) ==
  IF IsUpper(c) THEN LowerChars[CHOOSE i \in 1..26 : UpperChars[i] = c] ELSE c
LowerCase(t) == [i \in 1..Len(t) |-> ToLower(t[i])]

\* Is p a prefix of t, compared as the flag ci says (the /i of a pattern).
HasPrefix(t, p, ci) ==
  /\ Len(t) >= Len(p)
  /\ IF ci THEN LowerCase(SubSeq(t, 1, Len(p))) = LowerCase(p)
      ELSE SubSeq(t, 1, Len(p)) = p

TrimChars(t) ==
  LET ns == {i \in 1..Len(t) : t[i] \notin {" ", "\t", "\n", "\r"}}
  IN IF ns = {} THEN <<>> ELSE SubSeq(t, Min(ns), Max(ns))

\* .replace(/([a-z])([A-Z])/g, "$1 $2"): a match takes a lower and an upper
\* case letter, so no two matches overlap and every such pair gets its space.
RECURSIVE CamelSpaces(_)
CamelSpaces(t) ==
  IF Len(t) < 2 THEN t
  ELSE IF IsLower(t[1]) /\ IsUpper(t[2])
       THEN <<t[1], " ">> \o CamelSpaces(Tail(t))
       ELSE <<t[1]>> \o CamelSpaces(Tail(t))

RECURSIVE SplitChars(_, _)
SplitChars(t, sep) ==
  LET at == {i \in 1..Len(t) : t[i] = sep}
  IN IF at = {} THEN <<t>>
     ELSE <<SubSeq(t, 1, Min(at) - 1)>>
            \o SplitChars(SubSeq(t, Min(at) + 1, Len(t)), sep)

\* The characters a run of units spells (identifiers and single characters).
RECURSIVE CharsOf(_)
CharsOf(s) ==
  IF s = <<>> THEN <<>>
  ELSE (IF s[1].k = "ch" \/ s[1].k = "lit" THEN <<s[1].s>> ELSE s[1].id)
         \o CharsOf(Tail(s))

LocRegion == <<"L","o","c","R","e","g","i","o","n">>

prettyFromLocRegion(keyword) ==
  LET s0 == TrimChars(keyword)
      s1 == IF HasPrefix(s0, LocRegion, TRUE)
            THEN SubSeq(s0, Len(LocRegion) + 1, Len(s0)) ELSE s0
  IN TrimChars(CamelSpaces(s1))

COLON == Ch(":")
IsFishTag(u) == u.k = "lit" /\ u.s \in {"FISH", "fish", "Fish"}

\* ref.match(/:([^:]+):FISH\b/i): the places <<p, q>> of the two colons.
FishMatches(ref) ==
  {pq \in (1..Len(ref)) \X (1..Len(ref)) :
     /\ pq[1] + 1 < pq[2]
     /\ ref[pq[1]] = COLON /\ ref[pq[2]] = COLON
     /\ \A j \in (pq[1] + 1)..(pq[2] - 1) : ref[j] # COLON
     /\ pq[2] + 1 <= Len(ref) /\ IsFishTag(ref[pq[2] + 1])
     /\ (pq[2] + 2 <= Len(ref) =>
           ref[pq[2] + 2].k = "ch" /\ ~IsWordChar(ref[pq[2] + 2].s))}

prettyFromFishRef(lvloRef) ==
  LET ms == FishMatches(lvloRef)
  IN IF ms = {} THEN <<>>
     ELSE LET m == CHOOSE pq \in ms : \A o \in ms : pq[1] <= o[1]
              edid == CharsOf(SubSeq(lvloRef, m[1] + 1, m[2] - 1))
              parts == SplitChars(edid, "_")
              last == parts[Len(parts)]
          IN TrimChars(CamelSpaces(last))

----------------------------------------------------------------------------
(* extractMonthIndex, extractRegions *)

NullIdx == -1

Cond == <<"c","o","n","d">>

\* /^Cond\d+$/i.test(k)
IsCondName(k) ==
  /\ Len(k) >= 5
  /\ \A j \in 1..Len(k) : k[j].k = "ch"
  /\ [j \in 1..4 |-> ToLower(k[j].s)] = Cond
  /\ \A j \in 5..Len(k) : IsDigit(k[j].s)

\* s.includes("LCP_Fishing_Axolotl_MonthlyIndex")
HasMarker(s) == \E p \in 1..Len(s) : s[p].k = "fn"

\* s.match(/MonthlyIndex\s+\[GLOB:[0-9A-F]+\].*?(\d+)\.000000\b/i): the
\* places <<p, q>> of a marker with its GLOB reference and of a numeral after it.
MonthMatches(s) ==
  {pq \in (1..Len(s)) \X (1..Len(s)) :
     /\ pq[1] < pq[2]
     /\ s[pq[1]].k = "fn" /\ s[pq[1]].b
     /\ s[pq[2]].k = "num"}

\* Number(mm[1]) of the leftmost match, whose lazy .*? stops at the first numeral.
MonthOfMatch(s) ==
  LET ms == MonthMatches(s)
      p == Min({pq[1] : pq \in ms})
      q == Min({pq[2] : pq \in {m \in ms : m[1] = p}})
  IN s[q].n

RECURSIVE MonthScan(_, _)
MonthScan(r, j) ==
  IF j > Len(r) THEN NullIdx
  ELSE IF ~IsCondName(r[j].k) THEN MonthScan(r, j + 1)
  ELSE IF r[j].v = <<>> THEN MonthScan(r, j + 1)
  ELSE IF HasMarker(r[j].v) /\ MonthMatches(r[j].v) # {} THEN MonthOfMatch(r[j].v)
  ELSE MonthScan(r, j + 1)

extractMonthIndex(r) == MonthScan(r, 1)

\* /\b(LocRegion[A-Za-z0-9_]+)\s+\[KYWD:/ at unit p of s
IsRegionToken(u) ==
  /\ u.k = "kw" /\ u.b
  /\ HasPrefix(u.id, LocRegion, FALSE)
  /\ Len(u.id) > Len(LocRegion)
  /\ \A j \in 1..Len(u.id) : IsWordChar(u.id[j])

RegionPlaces(s) == {p \in 1..Len(s) : IsRegionToken(s[p])}

\* Fault seeded in SetAdd: an array push in place of Set.add.
SetAddPush(set, x) == Append(set, x)

\* regions.add(pretty): a Set keeps the first insertion's place.
SetAdd(set, x) == IF x \in Range(set) THEN set ELSE Append(set, x)

\* The body of the for loop of extractRegions for one condition field.
RegionsOfField(regionsAcc, s) ==
  IF RegionPlaces(s) = {} THEN regionsAcc
  ELSE LET pretty == prettyFromLocRegion(s[Min(RegionPlaces(s))].id)
       IN IF pretty # <<>> THEN SetAdd(regionsAcc, pretty) ELSE regionsAcc

RECURSIVE RegionScan(_, _, _)
RegionScan(r, j, acc) ==
  IF j > Len(r) THEN acc
  ELSE IF ~IsCondName(r[j].k) THEN RegionScan(r, j + 1, acc)
  ELSE IF r[j].v = <<>> THEN RegionScan(r, j + 1, acc)
  ELSE RegionScan(r, j + 1, RegionsOfField(acc, r[j].v))

extractRegions(r) == RegionScan(r, 1, <<>>)

----------------------------------------------------------------------------
(* The file system, listFilesRecursive, pickLatestLvliEntriesTsv *)

File(name, mtime, text) ==
  [isDir |-> FALSE, name |-> name, mtime |-> mtime, items |-> <<>>, text |-> text]
Dir(name, items) ==
  [isDir |-> TRUE, name |-> name, mtime |-> 0, items |-> items, text |-> <<>>]

RECURSIVE listFilesRecursive(_, _)
listFilesRecursive(dir, items) ==
  IF items = <<>> THEN <<>>
  ELSE LET it == Head(items)
           p == Append(dir, it.name)
       IN (IF it.isDir THEN listFilesRecursive(p, it.items) ELSE <<p>>)
            \o listFilesRecursive(dir, Tail(items))

\* The node a path names.
RECURSIVE NodeAt(_, _)
NodeAt(items, p) ==
  LET it == items[CHOOSE j \in 1..Len(items) : items[j].name = Head(p)]
  IN IF Len(p) = 1 THEN it ELSE NodeAt(it.items, Tail(p))

\* fs.statSync(p).mtimeMs
MtimeOf(p) == NodeAt(fs.items, p).mtime
\* readTextLatin1(p)
readTextLatin1(p) == NodeAt(fs.items, p).text
\* path.basename(p)
Basename(p) == p[Len(p)]

ExportPrefix == <<"L","V","L","I","_","E","x","p","o","r","t","_">>
EntriesSuffix == <<"_","L","V","L","I","_","E","n","t","r","i","e","s",".","t","s","v">>

\* /LVLI_Export_.*_LVLI_Entries\.tsv$/i.test(name)
IsEntriesName(name) ==
  \E a \in 1..Len(name) :
    /\ a + Len(ExportPrefix) - 1 <= Len(name) - Len(EntriesSuffix)
    /\ LowerCase(SubSeq(name, a, a + Len(ExportPrefix) - 1)) = LowerCase(ExportPrefix)
    /\ LowerCase(SubSeq(name, Len(name) - Len(EntriesSuffix) + 1, Len(name)))
         = LowerCase(EntriesSuffix)

\* Fault seeded in CompareMtime: the operands are swapped (oldest first).
CompareMtimeOldest(a, b) == MtimeOf(a) - MtimeOf(b)

\* The comparator of matches.sort: a negative number puts a before b.
CompareMtime(a, b) == MtimeOf(b) - MtimeOf(a)

\* Array.prototype.sort is stable: an element goes behind every element the
\* comparator does not put it before.
RECURSIVE InsertSorted(_, _)
InsertSorted(sorted, x) ==
  IF sorted = <<>> THEN <<x>>
  ELSE IF CompareMtime(x, Head(sorted)) < 0 THEN <<x>> \o sorted
  ELSE <<Head(sorted)>> \o InsertSorted(Tail(sorted), x)

RECURSIVE SortMatches(_)
SortMatches(ms) ==
  IF ms = <<>> THEN <<>>
  ELSE InsertSorted(SortMatches(SubSeq(ms, 1, Len(ms) - 1)), ms[Len(ms)])

EntriesMatches ==
  SelectSeq(listFilesRecursive(<<>>, fs.items), LAMBDA p : IsEntriesName(Basename(p)))

----------------------------------------------------------------------------
(* main *)

KeyEDID == <<Lit("LVLI_EDID")>>
KeyRef == <<Lit("LVLO_Reference")>>
TargetList == <<Lit("Fishing_LLS_FishCollection_Axolotls")>>
TBA == <<"T","B","A">>
MaxMonth == 12

\* Fault seeded in IsAxoRow: any row that names a list is taken.
IsAxoRowAnyList(r) == Trim(Get(r, KeyEDID)) # <<>>

\* String(r.LVLI_EDID || "").trim() === "Fishing_LLS_FishCollection_Axolotls"
IsAxoRow(r) == Trim(Get(r, KeyEDID)) = TargetList

\* Fault seeded in SkipsIdx: the upper limit is not tested.
SkipsIdxNoUpper(i) == (i = NullIdx \/ i = 0) \/ i < 1

\* !idx || idx < 1 || idx > 12
SkipsIdx(i) == (i = NullIdx \/ i = 0) \/ i < 1 \/ i > MaxMonth

\* { name: name || "TBA", regions, image: null }
EntryOf(r) ==
  LET name == prettyFromFishRef(Get(r, KeyRef))
  IN [name |-> IF name # <<>> THEN name ELSE TBA,
      regions |-> extractRegions(r),
      image |-> "null"]

\* Fault seeded in MonthsPut: an entry already present is kept.
MonthsPutFirst(m, i, e) ==
  [k \in DOMAIN m \cup {i} |-> IF k \in DOMAIN m THEN m[k] ELSE e]

\* months[String(idx)] = entry
MonthsPut(m, i, e) == [k \in DOMAIN m \cup {i} |-> IF k = i THEN e ELSE m[k]]

\* Fault seeded in WarnsFor: the limit is off by one.
WarnsForOffByOne(found) == found < MaxMonth - 1

\* found !== 12
WarnsFor(found) == found # MaxMonth

NoDist == [dir |-> FALSE, written |-> FALSE, months |-> <<>>]

PickLatest ==
  /\ pc = "start"
  /\ IF ~fs.exists \/ EntriesMatches = <<>>
     THEN /\ err' = "NotFoundError"
          /\ pc' = "failed"
          /\ UNCHANGED entriesPath
     ELSE /\ entriesPath' = SortMatches(EntriesMatches)[1]
          /\ pc' = "read"
          /\ UNCHANGED err
  /\ UNCHANGED <<fs, readPaths, rows, axoRows, ri, months, warned, dist,
                 tsvText, row, idx, regions>>

ReadParse ==
  /\ pc = "read"
  /\ readPaths' = readPaths \cup {entriesPath}
  /\ rows' = parseTSV(readTextLatin1(entriesPath))
  /\ pc' = "filter"
  /\ UNCHANGED <<fs, err, entriesPath, axoRows, ri, months, warned, dist,
                 tsvText, row, idx, regions>>

FilterRows ==
  /\ pc = "filter"
  /\ axoRows' = SelectSeq(rows, IsAxoRow)
  /\ IF axoRows' = <<>>
     THEN err' = "MissingListError" /\ pc' = "failed"
     ELSE pc' = "loop" /\ UNCHANGED err
  /\ UNCHANGED <<fs, entriesPath, readPaths, rows, ri, months, warned, dist,
                 tsvText, row, idx, regions>>

LoopStep ==
  /\ pc = "loop"
  /\ ri < Len(axoRows)
  /\ ri' = ri + 1
  /\ LET r == axoRows[ri + 1]
         i == extractMonthIndex(r)
     IN months' = IF SkipsIdx(i) THEN months ELSE MonthsPut(months, i, EntryOf(r))
  /\ UNCHANGED <<fs, pc, err, entriesPath, readPaths, rows, axoRows, warned, dist,
                 tsvText, row, idx, regions>>

CheckComplete ==
  /\ pc = "loop"
  /\ ri = Len(axoRows)
  /\ LET found == Cardinality(DOMAIN months)
     IN warned' = IF WarnsFor(found) THEN <<found>> ELSE <<>>
  /\ pc' = "write"
  /\ UNCHANGED <<fs, err, entriesPath, readPaths, rows, axoRows, ri, months, dist,
                 tsvText, row, idx, regions>>

WriteOutput ==
  /\ pc = "write"
  /\ dist' = [dir |-> TRUE, written |-> TRUE, months |-> months]
  /\ pc' = "done"
  /\ UNCHANGED <<fs, err, entriesPath, readPaths, rows, axoRows, ri, months, warned,
                 tsvText, row, idx, regions>>

----------------------------------------------------------------------------
(* The inputs *)

RECURSIVE Join(_, _)
Join(parts, sep) ==
  IF parts = <<>> THEN <<>>
  ELSE IF Len(parts) = 1 THEN parts[1]
  ELSE parts[1] \o <<sep>> \o Join(Tail(parts), sep)

\* The text of a table: cells joined by tabs, every line ended by a line break.
TextOf(table) ==
  Join([i \in 1..Len(table) |-> Join(table[i], TAB)], LF)
    \o (IF table = <<>> THEN <<>> ELSE <<LF>>)

Cond1 == Str(<<"C","o","n","d","1">>)
Cond2 == Str(<<"C","o","n","d","2">>)
Cond3 == Str(<<"c","o","n","d","3">>)
KeyNote == <<Lit("Note")>>

RegionFoFl == LocRegion \o <<"F","o","F","l">>
RegionBs == LocRegion \o <<"B","s">>
AreaXy == <<"L","o","c","A","r","e","a","X","y">>

HexId == Ident(<<"0","0","8","0","0","7","0","C">>)
RefCharcoal ==
  <<HexId, COLON,
    Ident(<<"F","i","s","h","_","A","x","o","0","1","_","C","h","a","r","A","x","o">>),
    COLON, Lit("FISH")>>
RefPink ==
  <<HexId, COLON, Ident(<<"F","i","s","h","_","P","i","n","k","A","x","o">>),
    COLON, Lit("FISH")>>
RefNoTag == <<HexId, COLON, Ident(<<"M","i","s","c","_","J","u","n","k">>),
              COLON, Lit("MISC")>>

ExportHeader == <<KeyEDID, KeyRef, Cond1, Cond2>>

\* The export's line for month m.
MonthLine(m) == <<TargetList, RefCharcoal, <<Fn(TRUE), Num(m)>>, <<Kw(RegionFoFl, TRUE)>>>>

\* Lines that repeat month 1, carry no usable month or belong to another list.
ExtraLines ==
  {<<TargetList, RefPink, <<Fn(TRUE), Num(1)>>, <<Kw(RegionBs, TRUE)>>>>,
   <<TargetList, RefNoTag, <<Fn(TRUE), Num(1)>>, <<>>>>,
   <<TargetList, RefPink, <<Fn(TRUE), Num(0)>>, <<Kw(RegionBs, TRUE)>>>>,
   <<TargetList, RefPink, <<Fn(TRUE), Num(MaxMonth + 1)>>, <<Kw(RegionBs, TRUE)>>>>,
   <<TargetList, RefPink, <<Kw(RegionBs, TRUE)>>, <<>>>>,
   <<<<Lit("Fishing_LLS_Other")>>, RefPink, <<Fn(TRUE), Num(1)>>, <<>>>>}

\* The export with the lines of the months 1..k and then the lines extra.
ExportText(k, extra) ==
  TextOf(<<ExportHeader>> \o [m \in 1..k |-> MonthLine(m)] \o extra)

SmallText == TextOf(<<ExportHeader, MonthLine(1)>>)

NameFeb == ExportPrefix \o <<"F","e","b">> \o EntriesSuffix
NameJan == LowerCase(ExportPrefix) \o <<"J","a","n">> \o LowerCase(EntriesSuffix)
NameBak == NameFeb \o <<".","b","a","k">>
NameShort == <<"L","V","L","I","_","E","x","p","o","r","t">> \o EntriesSuffix
DirOld == <<"o","l","d">>
DirSub == <<"s","u","b">>

Times == 1..MaxTime

TreeFiles ==
  {File(n, t, SmallText) : n \in {NameFeb, NameJan}, t \in Times}
  \cup {File(NameBak, MaxTime, SmallText)}
TreeDirs ==
  {Dir(DirOld, <<>>), Dir(DirOld, <<File(NameShort, MaxTime, SmallText)>>)}
  \cup {Dir(DirOld, <<Dir(DirSub, <<File(NameFeb, t, SmallText)>>)>>) : t \in Times}

\* A directory holds no two entries of the same name.
DistinctNames(items) ==
  \A a, b \in 1..Len(items) : a # b => items[a].name # items[b].name

ExportTree(text) == [exists |-> TRUE, items |-> <<File(NameFeb, 1, text)>>]

ParseAlphabet == {Ch("a"), Ch("b"), SP, TAB, LF, CR}

ExUnits == {Fn(TRUE), Num(7), Num(MaxMonth + 1),
            Kw(RegionFoFl, TRUE), Kw(RegionBs, TRUE)}
ExHeaders == {<<KeyNote, Cond1, Cond2, Cond3>>, <<Cond2, KeyNote, Cond1, Cond3>>}
\* A column that is no condition field, and a last condition field whose
\* marker has no GLOB reference and whose first keywords have no KYWD marker
\* or not the reserved prefix.
NoteCell == <<Kw(RegionFoFl, TRUE), Fn(TRUE), Num(3)>>
Cond3Cell == <<Fn(FALSE), Num(5), Kw(RegionFoFl, FALSE), Kw(AreaXy, TRUE),
               Kw(RegionBs, TRUE)>>

\* The row parseTSV builds under header for a line whose first two condition
\* fields are v1 and v2.
ExRow(header, v1, v2) ==
  ZipRow(header,
         [c \in 1..Len(header) |->
            IF header[c] = Cond1 THEN v1
            ELSE IF header[c] = Cond2 THEN v2
            ELSE IF header[c] = Cond3 THEN Cond3Cell ELSE NoteCell],
         1, <<>>)

----------------------------------------------------------------------------
(* Specifications *)

MainIdle ==
  /\ err = "none" /\ entriesPath = <<>> /\ readPaths = {}
  /\ rows = <<>> /\ axoRows = <<>> /\ ri = 0 /\ months = <<>>
  /\ warned = <<>> /\ dist = NoDist
ParseIdle == tsvText = <<>>
ExtractIdle == row = <<>> /\ idx = NullIdx /\ regions = <<>>

\* main() of the builder, over a tsv/ tree and the export it holds.
Init ==
  /\ pc = "start"
  /\ \/ fs = [exists |-> FALSE, items |-> <<>>]
     \/ \E n \in 0..MaxItems : \E items \in [1..n -> TreeFiles \cup TreeDirs] :
          DistinctNames(items) /\ fs = [exists |-> TRUE, items |-> items]
     \/ fs = ExportTree(<<>>)
     \/ \E k \in 0..MaxMonth : \E n \in 0..MaxExtra : \E extra \in [1..n -> ExtraLines] :
          fs = ExportTree(ExportText(k, extra))
  /\ MainIdle /\ ParseIdle /\ ExtractIdle

Next ==
  \/ PickLatest
  \/ ReadParse
  \/ FilterRows
  \/ LoopStep
  \/ CheckComplete
  \/ WriteOutput

Spec == Init /\ [][Next]_vars

\* parseTSV applied to a text.
ParseStep ==
  /\ pc = "text"
  /\ rows' = parseTSV(tsvText)
  /\ pc' = "parsed"
  /\ UNCHANGED <<fs, err, entriesPath, readPaths, axoRows, ri, months, warned, dist,
                 tsvText, row, idx, regions>>

InitParse ==
  /\ pc = "text"
  /\ \E n \in 0..MaxLen : tsvText \in [1..n -> ParseAlphabet]
  /\ fs = [exists |-> FALSE, items |-> <<>>]
  /\ MainIdle /\ ExtractIdle

NextParse == ParseStep

SpecParse == InitParse /\ [][NextParse]_vars

\* extractMonthIndex and extractRegions applied to a row.
ExtractMonthIndexStep ==
  /\ pc = "row"
  /\ idx' = extractMonthIndex(row)
  /\ pc' = "idx"
  /\ UNCHANGED <<fs, err, entriesPath, readPaths, rows, axoRows, ri, months, warned,
                 dist, tsvText, row, regions>>

ExtractRegionsStep ==
  /\ pc = "row"
  /\ regions' = extractRegions(row)
  /\ pc' = "regions"
  /\ UNCHANGED <<fs, err, entriesPath, readPaths, rows, axoRows, ri, months, warned,
                 dist, tsvText, row, idx>>

InitExtract ==
  /\ pc = "row"
  /\ \E header \in ExHeaders : \E n1, n2 \in 0..MaxToks :
       \E v1 \in [1..n1 -> ExUnits] : \E v2 \in [1..n2 -> ExUnits] :
         row = ExRow(header, v1, v2)
  /\ idx = NullIdx /\ regions = <<>>
  /\ fs = [exists |-> FALSE, items |-> <<>>]
  /\ MainIdle /\ ParseIdle

NextExtract ==
  \/ ExtractMonthIndexStep
  \/ ExtractRegionsStep

SpecExtract == InitExtract /\ [][NextExtract]_vars

----------------------------------------------------------------------------
(* C8: parseTSV, stated on the text itself (SpecParse) *)

IsBreak(i) == tsvText[i] \in {LF, CR}

\* The lines of tsvText: the maximal runs <<a, b>> of places between line breaks
\* (b = a - 1 for an empty run).
LineSpans ==
  {sp \in (1..(Len(tsvText) + 1)) \X (0..Len(tsvText)) :
     /\ sp[1] <= sp[2] + 1
     /\ sp[1] = 1 \/ IsBreak(sp[1] - 1)
     /\ sp[2] = Len(tsvText) \/ IsBreak(sp[2] + 1)
     /\ \A i \in sp[1]..sp[2] : ~IsBreak(i)}

\* The lines that are neither empty nor white space only.
KeptSpans == {sp \in LineSpans : \E i \in sp[1]..sp[2] : ~IsSpace(tsvText[i])}
NthKept(k) ==
  CHOOSE sp \in KeptSpans : Cardinality({o \in KeptSpans : o[1] < sp[1]}) = k - 1

\* The tab-separated values of a line, as runs of places.
CellSpans(sp) ==
  {cs \in (sp[1]..(sp[2] + 1)) \X ((sp[1] - 1)..sp[2]) :
     /\ cs[1] <= cs[2] + 1
     /\ cs[1] = sp[1] \/ tsvText[cs[1] - 1] = TAB
     /\ cs[2] = sp[2] \/ tsvText[cs[2] + 1] = TAB
     /\ \A i \in cs[1]..cs[2] : tsvText[i] # TAB}
NumCells(sp) == Cardinality(CellSpans(sp))
NthCell(sp, c) ==
  CHOOSE cs \in CellSpans(sp) :
    Cardinality({o \in CellSpans(sp) : o[1] < cs[1]}) = c - 1

\* The value of a run with its surrounding white space removed.
Trimmed(cs) ==
  LET ns == {i \in cs[1]..cs[2] : ~IsSpace(tsvText[i])}
  IN IF ns = {} THEN <<>>
     ELSE [i \in 1..(Max(ns) - Min(ns) + 1) |-> tsvText[Min(ns) + i - 1]]

HeaderName(c) == Trimmed(NthCell(NthKept(1), c))
\* The c-th value of the k-th data line, "" when the line is too short.
ValueAt(k, c) ==
  IF c <= NumCells(NthKept(k + 1)) THEN Trimmed(NthCell(NthKept(k + 1), c)) ELSE <<>>

OneRecordPerLine ==
  Len(rows) = IF KeptSpans = {} THEN 0 ELSE Cardinality(KeptSpans) - 1

\* No key but the header's names: the values beyond the header are dropped.
OnlyHeaderKeys(k) ==
  \A j \in 1..Len(rows[k]) :
    \E c \in 1..NumCells(NthKept(1)) : rows[k][j].k = HeaderName(c)

\* C8 as claimed: parseTSV returns one record per non-blank line after the
\* header, in line order, and the k-th record maps the header name at EVERY
\* position c to the trimmed c-th value of the k-th data line, or to "" when
\* the line has no c-th value; values beyond the header are dropped.
C8_PositionalZip_AsClaimed ==
  pc = "parsed" =>
    /\ OneRecordPerLine
    /\ \A k \in 1..Len(rows) :
         /\ OnlyHeaderKeys(k)
         /\ \A c \in 1..NumCells(NthKept(1)) :
              /\ HasKey(rows[k], HeaderName(c))
              /\ Get(rows[k], HeaderName(c)) = ValueAt(k, c)

\* The last position of the header that carries the name at position c.
IsLastOfName(c) ==
  \A d \in (c + 1)..NumCells(NthKept(1)) : HeaderName(d) # HeaderName(c)

\* C8 as amended: as claimed, except that a header name that occurs at several
\* positions is mapped to the value at the LAST position that carries it.
C8_PositionalZip ==
  pc = "parsed" =>
    /\ OneRecordPerLine
    /\ \A k \in 1..Len(rows) :
         /\ OnlyHeaderKeys(k)
         /\ \A c \in 1..NumCells(NthKept(1)) :
              /\ HasKey(rows[k], HeaderName(c))
              /\ IsLastOfName(c) => Get(rows[k], HeaderName(c)) = ValueAt(k, c)

\* A short line under a header of two names: the second name maps to "".
C8_Witness ==
  /\ pc = "parsed"
  /\ Len(rows) >= 1
  /\ NumCells(NthKept(1)) = 2
  /\ NumCells(NthKept(2)) = 1
  /\ HeaderName(1) # HeaderName(2)
  /\ Get(rows[1], HeaderName(1)) # <<>>
  /\ HasKey(rows[1], HeaderName(2)) /\ Get(rows[1], HeaderName(2)) = <<>>

----------------------------------------------------------------------------
(* C2, C3, C4, C10: the extractors (SpecExtract) *)

CondPlaces(r) == {j \in 1..Len(r) : IsCondName(r[j].k)}

\* What one condition field yields: the numeral of its marker when that is a
\* month, nothing (NullIdx) otherwise.
FieldMonth(s) ==
  IF HasMarker(s) /\ MonthMatches(s) # {} /\ MonthOfMatch(s) \in 1..MaxMonth
  THEN MonthOfMatch(s) ELSE NullIdx

\* The value of the first condition field, in enumeration order, that yields
\* a month; NullIdx when none does.
FirstValidMonth(r) ==
  LET hits == {j \in CondPlaces(r) : FieldMonth(r[j].v) # NullIdx}
  IN IF hits = {} THEN NullIdx ELSE FieldMonth(r[Min(hits)].v)

\* C2 as claimed: a field whose numeral is missing or outside 1..12 yields
\* nothing and the scan goes on; the record's month index is the value of the
\* first field that yields a value in 1..12 (13.000000 then 7.000000 gives 7).
C2_FirstValidFieldWins ==
  pc = "idx" => (IF idx \in 1..MaxMonth THEN idx ELSE NullIdx) = FirstValidMonth(row)

\* C3 as claimed: the prettified tag of every region token of every condition
\* field is in the record's tag set, also when one field holds several tokens.
C3_EveryTokenTagged ==
  pc = "regions" =>
    \A j \in CondPlaces(row) : \A p \in RegionPlaces(row[j].v) :
      prettyFromLocRegion(row[j].v[p].id) \in Range(regions)

\* The condition fields in which the scan finds the tag t.
FieldsWithTag(r, t) ==
  {j \in CondPlaces(r) :
     /\ RegionPlaces(r[j].v) # {}
     /\ prettyFromLocRegion(r[j].v[Min(RegionPlaces(r[j].v))].id) = t}

\* C4: the tag list holds no tag twice, also when two fields carry the same
\* keyword, no tag is empty, and the tags stand in the order in which the scan
\* of the condition fields first finds them.
C4_TagsUniqueInFirstSeenOrder ==
  pc = "regions" =>
    /\ \A a, b \in 1..Len(regions) : a # b => regions[a] # regions[b]
    /\ \A a \in 1..Len(regions) :
         regions[a] # <<>> /\ FieldsWithTag(row, regions[a]) # {}
    /\ \A a, b \in 1..Len(regions) :
         a < b => Min(FieldsWithTag(row, regions[a])) < Min(FieldsWithTag(row, regions[b]))

\* The same keyword in two condition fields and another one between them.
C4_Witness ==
  /\ pc = "regions"
  /\ Len(regions) = 2
  /\ \E t \in Range(regions) : Cardinality(FieldsWithTag(row, t)) >= 2

\* Character order (ASCII) and the order of field names it gives.
CharOrder == DigitChars \o UpperChars \o <<"_">> \o LowerChars
CharRank(c) == CHOOSE i \in 1..Len(CharOrder) : CharOrder[i] = c
RECURSIVE NameBefore(_, _)
NameBefore(a, b) ==
  IF a = <<>> THEN b # <<>>
  ELSE IF b = <<>> THEN FALSE
  ELSE IF a[1] = b[1] THEN NameBefore(Tail(a), Tail(b))
  ELSE CharRank(a[1].s) < CharRank(b[1].s)

\* The rows that hold the fields of r in another column order.
Reorderings(r) ==
  {[j \in 1..Len(r) |-> r[f[j]]] :
     f \in {g \in [1..Len(r) -> 1..Len(r)] : \A a, b \in 1..Len(r) : a # b => g[a] # g[b]}}

\* The reordering of r whose condition fields stand in the order of their names.
CondsByName(r) ==
  CHOOSE t \in Reorderings(r) :
    \A a, b \in CondPlaces(t) : a < b => NameBefore(t[a].k, t[b].k)

\* C10 as claimed: both extractors visit the condition fields in the order of
\* their names, whatever the order of the columns, so that the month index and
\* the tag list are those of every other column order of the same line.
C10_FieldNameOrder ==
  /\ pc = "idx" =>
       /\ idx = extractMonthIndex(CondsByName(row))
       /\ \A t \in Reorderings(row) : extractMonthIndex(t) = idx
  /\ pc = "regions" =>
       /\ regions = extractRegions(CondsByName(row))
       /\ \A t \in Reorderings(row) : extractRegions(t) = regions

----------------------------------------------------------------------------
(* C1, C5, C6, C7, C9: main (Spec) *)

Assembling == pc \in {"loop", "write", "done"}

\* The row the for loop takes next.
NextRow == axoRows[ri + 1]
InLoopBody == pc = "loop" /\ ri < Len(axoRows)

\* C1: every key of the table is a month 1..12 that one of the records
\* processed so far yielded, and a record that yields no index, 0 or a value
\* outside 1..12 leaves the table as it is.
C1_KeysAreYieldedMonths ==
  \A i \in DOMAIN months :
    /\ i \in 1..MaxMonth
    /\ \E j \in 1..ri : extractMonthIndex(axoRows[j]) = i

C1_NoIndexNoChange ==
  (InLoopBody /\ extractMonthIndex(NextRow) \notin 1..MaxMonth) => months' = months

C1_TableInvariant == [](Assembling => C1_KeysAreYieldedMonths) /\ [][C1_NoIndexNoChange]_vars

\* Records with the indices 0 or 13 and with months have been processed.
C1_Witness ==
  /\ pc = "loop"
  /\ DOMAIN months # {}
  /\ \E j \in 1..ri : extractMonthIndex(axoRows[j]) = MaxMonth + 1
  /\ \E j \in 1..ri : extractMonthIndex(axoRows[j]) = 0

\* What each input record yields: its month index, NullIdx when it yields none
\* or is not of the target list.
Yields ==
  [j \in 1..Len(rows) |->
     IF IsAxoRow(rows[j]) THEN extractMonthIndex(rows[j]) ELSE NullIdx]

\* The places, in input order, of the records of the target list that yield i.
RecordsFor(i) == {j \in 1..Len(rows) : Yields[j] = i}

\* C5: once every record is processed, the entry at a month is the one built
\* from the latest record, in input order, that yields the month; a write to a
\* month already present changes no other entry and adds no key.
C5_LatestRecordStands ==
  LET y == Yields
  IN \A i \in 1..MaxMonth :
       LET js == {j \in 1..Len(rows) : y[j] = i}
       IN js # {} => i \in DOMAIN months /\ months[i] = EntryOf(rows[Max(js)])

C5_OverwriteTouchesOneKey ==
  (InLoopBody /\ extractMonthIndex(NextRow) \in DOMAIN months) =>
    /\ DOMAIN months' = DOMAIN months
    /\ \A k \in DOMAIN months :
         months'[k] = IF k = extractMonthIndex(NextRow) THEN EntryOf(NextRow)
                      ELSE months[k]

C5_LastWriteWins ==
  [](pc \in {"write", "done"} => C5_LatestRecordStands)
    /\ [][C5_OverwriteTouchesOneKey]_vars

\* Month 1 was written three times, with different entries, among other months.
C5_Witness ==
  /\ pc = "done"
  /\ Cardinality(RecordsFor(1)) = 3
  /\ Cardinality({EntryOf(rows[j]) : j \in RecordsFor(1)}) = 3
  /\ Cardinality(DOMAIN months) >= 2

\* No parsed record belongs to the target list.
NoAxoRecord == \A j \in 1..Len(rows) : Get(rows[j], KeyEDID) # TargetList

\* C6: when no parsed record has the target list identifier the run ends in
\* the fatal error before any record is assembled, with nothing written and
\* no directory made; with one such record the error is not raised, whether
\* or not a record yields a month.
C6_MissingListError ==
  /\ err = "MissingListError" =>
       /\ pc = "failed" /\ NoAxoRecord
       /\ ri = 0 /\ months = <<>> /\ dist = NoDist
  /\ (pc \notin {"start", "read", "filter"} /\ err # "NotFoundError" /\ NoAxoRecord) =>
       err = "MissingListError"
  /\ Assembling => ~NoAxoRecord /\ err = "none"

\* The export has records, none of the target list.
C6_Witness == err = "MissingListError" /\ Len(rows) >= 1

\* The months the records of the target list yield.
YieldedMonths == Range(Yields) \cap (1..MaxMonth)

\* C7: with records of the target list that yield K distinct months the run
\* does not fail and writes a table with exactly those K keys; it warns "K/12"
\* exactly when K < 12, K being the number of keys written.
C7_PartialIsNotFatal ==
  /\ ~NoAxoRecord => pc # "failed"
  /\ pc = "loop" => ri <= Len(axoRows)
  /\ pc \in {"write", "done"} =>
       LET ym == YieldedMonths
       IN /\ DOMAIN months = ym
          /\ warned = IF Cardinality(ym) < MaxMonth THEN <<Cardinality(ym)>> ELSE <<>>
  /\ pc = "done" =>
       /\ dist.dir /\ dist.written
       /\ dist.months = months
       /\ warned # <<>> => warned[1] = Cardinality(DOMAIN dist.months)

\* Ten months resolved: the table of ten is written after the warning 10/12.
C7_Witness ==
  /\ pc = "done"
  /\ warned = <<10>>
  /\ Cardinality(DOMAIN dist.months) = 10

\* The files of the tree below tsv/, as <<path, mtime>>, one level at a time.
FilesAtDepth1 ==
  {<<<<a.name>>, a.mtime>> : a \in {x \in Range(fs.items) : ~x.isDir}}
FilesAtDepth2 ==
  UNION {{<<<<d.name, a.name>>, a.mtime>> : a \in {x \in Range(d.items) : ~x.isDir}} :
           d \in {x \in Range(fs.items) : x.isDir}}
FilesAtDepth3 ==
  UNION {UNION {{<<<<d.name, e.name, a.name>>, a.mtime>> :
                   a \in {x \in Range(e.items) : ~x.isDir}} :
                  e \in {x \in Range(d.items) : x.isDir}} :
           d \in {x \in Range(fs.items) : x.isDir}}
CandidateFiles ==
  {f \in FilesAtDepth1 \cup FilesAtDepth2 \cup FilesAtDepth3 :
     IsEntriesName(f[1][Len(f[1])])}

\* C9: when tsv/ exists and holds a file of the export-entries name, at any
\* depth, the file selected is such a file and none of them is newer; when
\* tsv/ does not exist or holds no such file the run fails with the not-found
\* error before it reads or writes any file.
C9_FileSelector ==
  LET cands == CandidateFiles
  IN /\ (fs.exists /\ cands # {}) => err # "NotFoundError"
     /\ (pc \notin {"start", "failed"}) =>
          \E f \in cands :
            /\ f[1] = entriesPath
            /\ \A g \in cands : f[2] >= g[2]
     /\ (pc # "start" /\ (~fs.exists \/ cands = {})) =>
          /\ pc = "failed" /\ err = "NotFoundError"
          /\ readPaths = {} /\ dist = NoDist
     /\ readPaths \subseteq {entriesPath}

\* Three candidates of three different times, the newest not listed first.
C9_Witness ==
  /\ pc = "read"
  /\ Cardinality({f[2] : f \in CandidateFiles}) >= 3
  /\ entriesPath # EntriesMatches[1]

====
